---- MODULE Spec2Model ----
(***************************************************************************)
(* Model of the fitness MCP adapters of mcp_fitness_stack:                 *)
(*   - hevy_mcp/server.py: get_client / api_get and the tool               *)
(*     analyze_recent_workouts (paginated scan, cutoff filter, summary);   *)
(*   - stravamcpserver/server.py, stravamcpserver/strava_auth.py and       *)
(*     mymcpserver/server.py: how each adapter reads its credentials.      *)
(* Times are whole hours since an arbitrary epoch.  Weights are whole      *)
(* units of the smallest plate, so that weight x reps is exact.            *)
(***************************************************************************)
EXTENDS Integers, Sequences, FiniteSets, TLC

(* ------------------------------ bounds --------------------------------- *)

\* Longest page the remote server returns in the explored runs.
MaxPageLen == 2

\* Number of workout records the remote server holds in the explored runs.
MaxRecords == 6

\* Longest list of kept workouts the summary is explored on (SpecSummary).
MaxKept == 3

\* The largest `days` argument of get_garmin_stats explored.
MaxDaysArg == 2

(* ------------------------- program constants --------------------------- *)

\* Mutation of LastPage: range(1, 7).
LastPageOffByOne == 5 + 1

\* for page in range(1, 6)
LastPage == 5

\* params={"page": page, "pageSize": 10}
PageSize == 10

\* sorted(...)[:10]
TopN == 10

\* def analyze_recent_workouts(days: int = 7)
DefaultDays == 7

\* timedelta(days=days), in hours
HoursPerDay == 24

\* arguments.get("days", 7) of get_garmin_stats.
GarminDefaultDays == 7

\* Values of the argument `days` that are explored.
Days == {1, DefaultDays}

\* datetime.now(timezone.utc) at the call, in hours.
Clock == HoursPerDay * (DefaultDays + 1)

(* ------------------------------ JSON values ---------------------------- *)

\* An optional JSON member: absent or null (some = FALSE) or a value.
None == [some |-> FALSE, v |-> 0]
Some(x) == [some |-> TRUE, v |-> x]
NoneStr == [some |-> FALSE, v |-> ""]

\* dict.get(key, default): the default replaces an absent member.
GetOr(opt, default) == IF opt.some THEN opt.v ELSE default

\* `x or 0`
OrZero(opt) == IF opt.some THEN opt.v ELSE 0

\* A start_time string.  form: "z" (ISO-8601 ending in Z), "offset" (ISO-8601
\* with a numeric UTC offset off), "naive" (ISO-8601 without offset),
\* "garbage" (not ISO-8601), "missing" (absent, null or empty).  local is the
\* wall-clock time written in the string.
StartTime(form, local, off) == [form |-> form, local |-> local, off |-> off]

\* `if start:`
Truthy(start) == start.form # "missing"

\* datetime.fromisoformat(start.replace("Z", "+00:00")): ok = FALSE when it
\* raises; aware = the result carries a UTC offset.
ParseStart(start) ==
    CASE start.form = "z"      -> [ok |-> TRUE, aware |-> TRUE, local |-> start.local, off |-> 0]
      [] start.form = "offset" -> [ok |-> TRUE, aware |-> TRUE, local |-> start.local, off |-> start.off]
      [] start.form = "naive"  -> [ok |-> TRUE, aware |-> FALSE, local |-> start.local, off |-> 0]
      [] OTHER                 -> [ok |-> FALSE, aware |-> FALSE, local |-> 0, off |-> 0]

\* The instant (UTC hours) an aware datetime denotes.
Instant(wdate) == wdate.local - wdate.off

\* cutoff = datetime.now(timezone.utc) - timedelta(days=days)
Cutoff(now, d) == now - HoursPerDay * d

\* Mutation of Keeps: `if wdate > cutoff:`.
KeepsStrictlyLater(instant, c) == instant > c

\* `if wdate >= cutoff:`
Keeps(instant, c) == instant >= c

\* Mutation of OnParseError: `except Exception: break`.
OnParseErrorBreak == "stop"

\* `except Exception: continue`
OnParseError == "skip"

\* The body of `for w in workouts`: "keep" (append), "stop" (break) or "skip"
\* (falsy start_time, or an exception swallowed by `except Exception`; comparing
\* a naive datetime with the aware cutoff raises TypeError).
Classify(w, c) ==
    IF ~Truthy(w.start_time) THEN "skip"
    ELSE LET wdate == ParseStart(w.start_time) IN
         IF ~wdate.ok THEN OnParseError
         ELSE IF ~wdate.aware THEN OnParseError
         ELSE IF Keeps(Instant(wdate), c) THEN "keep"
         ELSE IF Instant(wdate) < c THEN "stop"
         ELSE "skip"

(* ------------------------------ workout data --------------------------- *)

SetEntry(weight_kg, reps) == [weight_kg |-> weight_kg, reps |-> reps]
ExerciseEntry(title, sets) == [title |-> title, sets |-> sets]
Workout(title, start_time, exercises) ==
    [title |-> title, start_time |-> start_time, exercises |-> exercises]

(* ------------------------------ the summary ---------------------------- *)

\* One line of the returned text: tag names the f-string, n, s and m are the
\* values it interpolates.
Line(tag, n, s, m) == [tag |-> tag, n |-> n, s |-> s, m |-> m]

\* exercise_counts[ex_title] = exercise_counts.get(ex_title, 0) + 1, on a dict
\* kept as its items in insertion order.
Bump(counts, t) ==
    IF \E i \in 1..Len(counts) : counts[i].title = t
    THEN [i \in 1..Len(counts) |->
            IF counts[i].title = t
            THEN [title |-> t, count |-> counts[i].count + 1]
            ELSE counts[i]]
    ELSE Append(counts, [title |-> t, count |-> 1])

\* Mutation of AddSet: a set without weight or reps is not counted.
AddSetSkippingIncomplete(acc, s) ==
    IF s.weight_kg.some /\ s.reps.some
    THEN [acc EXCEPT !.total_sets = @ + 1,
                     !.total_volume_kg = @ + s.weight_kg.v * s.reps.v]
    ELSE acc

\* The body of `for s in ex.get("sets", [])`.
AddSet(acc, s) ==
    LET kg == OrZero(s.weight_kg)
        reps == OrZero(s.reps)
    IN [acc EXCEPT !.total_sets = @ + 1,
                   !.total_volume_kg = @ + kg * reps]

RECURSIVE AddSets(_, _)
AddSets(acc, sets) ==
    IF sets = <<>> THEN acc ELSE AddSets(AddSet(acc, Head(sets)), Tail(sets))

\* The body of `for ex in exercises`.
AddExercise(acc, ex) ==
    LET ex_title == GetOr(ex.title, "Unknown")
    IN AddSets([acc EXCEPT !.exercise_counts = Bump(@, ex_title)], ex.sets)

RECURSIVE AddExercises(_, _)
AddExercises(acc, exercises) ==
    IF exercises = <<>> THEN acc
    ELSE AddExercises(AddExercise(acc, Head(exercises)), Tail(exercises))

\* `for w in all_workouts`, in list order: the first half of the list, then the
\* rest from the totals the first half left. Reading first.total_sets makes
\* the first half's totals a value before the rest starts, which keeps the
\* evaluation shallow on a long list.
RECURSIVE AddWorkouts(_, _)
AddWorkouts(acc, ws) ==
    IF ws = <<>> THEN acc
    ELSE IF Len(ws) = 1 THEN AddExercises(acc, ws[1].exercises)
    ELSE LET half == Len(ws) \div 2
             first == AddWorkouts(acc, SubSeq(ws, 1, half))
         IN  IF first.total_sets \in Nat
             THEN AddWorkouts(first, SubSeq(ws, half + 1, Len(ws)))
             ELSE first

\* total_sets, total_volume_kg and exercise_counts after `for w in all_workouts`.
Tally(ws) ==
    AddWorkouts([total_sets |-> 0, total_volume_kg |-> 0, exercise_counts |-> <<>>], ws)

\* Mutation of InsertByCount: an unstable sort, equal counts end up reversed.
InsertByCountUnstable(sorted, x) ==
    LET ahead == {i \in 1..Len(sorted) : sorted[i].count > x.count}
        k == Cardinality(ahead)
    IN SubSeq(sorted, 1, k) \o <<x>> \o SubSeq(sorted, k + 1, Len(sorted))

\* Python's stable sort with key -count: x, which came after every item of
\* sorted, goes behind the items whose count is at least its own.
InsertByCount(sorted, x) ==
    LET ahead == {i \in 1..Len(sorted) : sorted[i].count >= x.count}
        k == Cardinality(ahead)
    IN SubSeq(sorted, 1, k) \o <<x>> \o SubSeq(sorted, k + 1, Len(sorted))

RECURSIVE SortedByCount(_)
SortedByCount(items) ==
    IF items = <<>> THEN <<>>
    ELSE InsertByCount(SortedByCount(SubSeq(items, 1, Len(items) - 1)),
                       items[Len(items)])

\* sorted(exercise_counts.items(), key=lambda x: -x[1])[:10]
TopExercises(counts) ==
    LET sorted_ex == SortedByCount(counts)
    IN SubSeq(sorted_ex, 1, IF Len(sorted_ex) < TopN THEN Len(sorted_ex) ELSE TopN)

\* w.get("start_time", "")[:10], the date as written in the string.
DatePrefix(start) == start.local \div HoursPerDay

WorkoutLines(ws) ==
    [i \in 1..Len(ws) |->
        Line("workout", DatePrefix(ws[i].start_time),
             GetOr(ws[i].title, "Untitled"), Len(ws[i].exercises))]

FrequencyLines(counts) ==
    IF counts = <<>> THEN <<>>
    ELSE <<Line("blank", 0, "", 0), Line("frequent_heading", 0, "", 0)>>
         \o [i \in 1..Len(TopExercises(counts)) |->
                Line("exercise", TopExercises(counts)[i].count,
                     TopExercises(counts)[i].title, 0)]

\* The lines of the summary built when all_workouts is not empty.
SummaryLines(ws, d) ==
    LET t == Tally(ws)
    IN <<Line("header", d, "", 0), Line("blank", 0, "", 0),
         Line("total_workouts", Len(ws), "", 0),
         Line("total_sets", t.total_sets, "", 0),
         Line("total_volume", t.total_volume_kg, "", 0),
         Line("blank", 0, "", 0), Line("workouts_heading", 0, "", 0)>>
       \o WorkoutLines(ws) \o FrequencyLines(t.exercise_counts)

\* f"No workouts found in the last {days} days."
NoWorkoutsLine(d) == Line("no_workouts", d, "", 0)

\* Mutation of Render: no `if not all_workouts` guard.
RenderAlways(ws, d) == SummaryLines(ws, d)

\* What analyze_recent_workouts returns once the scan is over.
Render(ws, d) ==
    IF ws = <<>> THEN <<NoWorkoutsLine(d)>> ELSE SummaryLines(ws, d)

(* ------------------------------ credentials ---------------------------- *)

\* The environment variables the adapters read.
Credentials ==
    {"HEVY_API_KEY", "STRAVA_ACCESS_TOKEN", "STRAVA_CLIENT_ID",
     "STRAVA_CLIENT_SECRET", "GARMIN_EMAIL", "GARMIN_PASSWORD"}

\* A variable is "unset", "empty" (set to the empty string) or "set".
EnvValues == {"unset", "empty", "set"}

\* get_client: `if not api_key: raise ValueError(...)`.
HevyKeyMissing(e) == e["HEVY_API_KEY"] # "set"

(* --------------------------- the remote server ------------------------- *)

\* The workouts a page can hold in the explored runs, relative to the cutoff:
\* within the window, exactly at the cutoff (written with a UTC offset), older
\* than the cutoff (written with an offset that makes the wall-clock time look
\* recent), and three records whose start_time is unusable.
FreshWorkout(cutoff) ==
    Workout(Some("Push"), StartTime("z", cutoff + 1, 0),
            <<ExerciseEntry(Some("Bench"), <<SetEntry(Some(20), Some(5))>>)>>)
BoundaryWorkout(cutoff) ==
    Workout(Some("Legs"), StartTime("offset", cutoff - 1, 0 - 1),
            <<ExerciseEntry(Some("Squat"),
                            <<SetEntry(None, Some(5)), SetEntry(Some(30), Some(2))>>)>>)
StaleWorkout(cutoff) ==
    Workout(Some("Old"), StartTime("offset", cutoff + 1, 2), <<>>)
NaiveWorkout(cutoff) ==
    Workout(Some("Naive"), StartTime("naive", cutoff + 1, 0), <<>>)
GarbageWorkout == Workout(Some("Garbage"), StartTime("garbage", 0, 0), <<>>)
MissingWorkout == Workout(NoneStr, StartTime("missing", 0, 0), <<>>)

ScanRecords(cutoff) ==
    {FreshWorkout(cutoff), BoundaryWorkout(cutoff), StaleWorkout(cutoff),
     NaiveWorkout(cutoff), GarbageWorkout, MissingWorkout}

\* Kept workouts the summary is explored on: all at or after the cutoff, with
\* sets lacking weight_kg or reps, an exercise without title, a workout
\* without exercises, and enough distinct titles to exceed the top 10.
OneSet == <<SetEntry(Some(1), Some(1))>>
PushWorkout(c) ==
    Workout(Some("Push"), StartTime("z", c + 1, 0),
            <<ExerciseEntry(Some("Bench"),
                            <<SetEntry(Some(20), Some(5)), SetEntry(None, Some(5)),
                              SetEntry(Some(20), None)>>),
              ExerciseEntry(Some("Dips"), <<SetEntry(Some(0), Some(10))>>)>>)
PullWorkout(c) ==
    Workout(Some("Pull"), StartTime("offset", c - 1, 0 - 1),
            <<ExerciseEntry(Some("Row"), <<SetEntry(Some(30), Some(3))>>),
              ExerciseEntry(NoneStr, <<SetEntry(None, None)>>),
              ExerciseEntry(Some("Bench"), <<SetEntry(Some(25), Some(2))>>)>>)
RestWorkout(c) == Workout(NoneStr, StartTime("z", c + HoursPerDay, 0), <<>>)
CircuitA(c) ==
    Workout(Some("Circuit A"), StartTime("z", c + 2, 0),
            <<ExerciseEntry(Some("E1"), OneSet), ExerciseEntry(Some("E2"), <<>>),
              ExerciseEntry(Some("E3"), OneSet), ExerciseEntry(Some("E4"), OneSet),
              ExerciseEntry(Some("E5"), OneSet), ExerciseEntry(Some("E6"), OneSet)>>)
CircuitB(c) ==
    Workout(Some("Circuit B"), StartTime("z", c, 0),
            <<ExerciseEntry(Some("E7"), OneSet), ExerciseEntry(Some("E8"), OneSet),
              ExerciseEntry(Some("E9"), OneSet), ExerciseEntry(Some("Unknown"), OneSet),
              ExerciseEntry(Some("E10"), OneSet), ExerciseEntry(Some("Row"), OneSet),
              ExerciseEntry(Some("E7"), OneSet)>>)

KeptRecords(c) ==
    {PushWorkout(c), PullWorkout(c), RestWorkout(c), CircuitA(c), CircuitB(c)}

\* The pages of at most n records.
Pages(records, n) == UNION {[1..k -> records] : k \in 0..n}

Min(a, b) == IF a < b THEN a ELSE b

\* The run of an adapter operation: op names it, pc is its position, calls are
\* the outbound requests it has made, err the exception it ended with and code
\* the global auth_code of strava_auth ("none" for None).
AdapterRun(op, at, calls, err, code) ==
    [op |-> op, pc |-> at, calls |-> calls, err |-> err, code |-> code]

\* An outbound request: to names the service, missing the credentials the
\* request needed that were not set, code the authorization code it carries.
Call(to, missing, code) == [to |-> to, missing |-> missing, code |-> code]

\* The credentials of e, among creds, that are unset or empty.
Missing(e, creds) == {c \in creds : e[c] # "set"}

Idle == AdapterRun("none", "idle", <<>>, "none", "none")

\* The run of a Hevy tool: tool names it, verb is its HTTP verb, pc its
\* position, clients the number of open httpx clients, opened the number of
\* clients created so far, calls the number of api_* calls started, status and
\* body the response of the current call (0 and "none" before it arrives),
\* pending the outcome of the with-block of the current call, ret what the
\* last api_* call returned and err the exception the tool ended with.
NoReturn == [path |-> "none", value |-> "none"]
ApiRun(tool, verb, at) ==
    [tool |-> tool, verb |-> verb, pc |-> at, clients |-> 0, opened |-> 0,
     calls |-> 0, status |-> 0, body |-> "none", pending |-> "none",
     ret |-> NoReturn, err |-> "none"]

ApiIdle == ApiRun("none", "none", "idle")

\* The HTTPServer of strava_auth: listening, the requests it has handled and
\* the responses it has sent.
NotListening == [listening |-> FALSE, handled |-> <<>>, replies |-> <<>>]

\* get_garmin_stats: the argument days, the loop variable i, the list stats,
\* what the call returned ("pending" before, "None" for None, else "stats") and,
\* for each iteration run, the metric calls that did not raise.
NoGarminRun ==
    [days |-> 0, i |-> 0, stats |-> <<>>, returned |-> "pending", answered |-> <<>>]

(* ------------------------------- state --------------------------------- *)

VARIABLES
    env,            \* os.environ, restricted to Credentials
    days,           \* the argument of analyze_recent_workouts
    now,            \* datetime.now(timezone.utc) at the call
    pc,             \* "fetch", "scan", "summarise", "returned", "raised";
                    \* "idle" when analyze_recent_workouts is not running
    page,           \* the loop variable of `for page in range(1, 6)`
    workouts,       \* the page last returned by api_get
    idx,            \* position of `for w in workouts` (1-based)
    all_workouts,   \* the kept records
    requests,       \* the HTTP requests issued so far, by their params
    srvLeft,        \* records the remote server can still return
    result,         \* the lines returned, <<>> before the return
    error,          \* the exception raised, "none" otherwise
    adp,            \* the run of one of the other adapter operations
    scanned,        \* number of records `for w in workouts` has examined
    api,            \* the run of a Hevy tool through api_get/post/put/delete
    listener,       \* the HTTPServer of strava_auth
    garmin          \* the run of get_garmin_stats after the login

vars == <<env, days, now, pc, page, workouts, idx, all_workouts, requests,
          srvLeft, result, error, adp, scanned, api, listener, garmin>>

\* The state outside analyze_recent_workouts and outside adp.
aux == <<api, listener, garmin>>

cutoff == Cutoff(now, days)

\* The state as analyze_recent_workouts reaches `for page in range(1, 6)`.
Init ==
    /\ env \in {e \in [Credentials -> EnvValues] :
                  \A c \in Credentials \ {"HEVY_API_KEY"} : e[c] = "set"}
    /\ days \in Days
    /\ now = Clock
    /\ pc = "fetch"
    /\ page = 1
    /\ workouts = <<>>
    /\ idx = 0
    /\ all_workouts = <<>>
    /\ requests = <<>>
    /\ srvLeft = MaxRecords
    /\ result = <<>>
    /\ error = "none"
    /\ adp = Idle
    /\ scanned = 0
    /\ api = ApiIdle
    /\ listener = NotListening
    /\ garmin = NoGarminRun

(* --------------------------- loop control ------------------------------ *)

\* Mutation of AfterBreak: the inner `break` ends the page only.
AfterBreakInnerOnly(p) ==
    IF p < LastPage THEN [pc |-> "fetch", page |-> p + 1]
    ELSE [pc |-> "summarise", page |-> p]

\* The inner `break` skips the for-else and reaches the outer `break`.
AfterBreak(p) == [pc |-> "summarise", page |-> p]

\* The inner loop ran out: `else: continue`, and range(1, 6) ends after 5.
AfterPage(p) ==
    IF p < LastPage THEN [pc |-> "fetch", page |-> p + 1]
    ELSE [pc |-> "summarise", page |-> p]

\* Mutation of AfterEmpty: `if not workouts: continue`.
AfterEmptyContinue(p) ==
    IF p < LastPage THEN [pc |-> "fetch", page |-> p + 1]
    ELSE [pc |-> "summarise", page |-> p]

\* `if not workouts: break`
AfterEmpty(p) == [pc |-> "summarise", page |-> p]

\* Mutation of OnFetchError: the exception is swallowed and the records kept so
\* far are summarised.
OnFetchErrorSwallow(p) == [pc |-> "summarise", page |-> p]

\* An exception of api_get is caught nowhere in analyze_recent_workouts: the
\* call ends with it.
OnFetchError(p) == [pc |-> "raised", page |-> p]

\* What api_get can raise once the request is sent: the transport fails,
\* raise_for_status() meets a non-2xx status, response.json() cannot parse.
FetchErrors == {"TransportError", "HTTPStatusError", "JSONDecodeError"}

(* ------------------------------ actions -------------------------------- *)

\* api_get("/workouts", ...): get_client() raises before any request.
FetchNoKey ==
    /\ pc = "fetch"
    /\ HevyKeyMissing(env)
    /\ error' = "ValueError"
    /\ pc' = OnFetchError(page).pc
    /\ page' = OnFetchError(page).page
    /\ UNCHANGED <<env, days, now, workouts, idx, all_workouts, requests,
                   srvLeft, result, adp, scanned, aux>>

\* api_get sends the request and raises.
FetchFails ==
    /\ pc = "fetch"
    /\ ~HevyKeyMissing(env)
    /\ requests' = Append(requests, [page |-> page, pageSize |-> PageSize])
    /\ error' \in FetchErrors
    /\ pc' = OnFetchError(page).pc
    /\ page' = OnFetchError(page).page
    /\ UNCHANGED <<env, days, now, workouts, idx, all_workouts, srvLeft, result, adp,
                 scanned, aux>>

\* api_get returns a page; `if not workouts: break`, else the scan starts.
FetchPage ==
    /\ pc = "fetch"
    /\ ~HevyKeyMissing(env)
    /\ requests' = Append(requests, [page |-> page, pageSize |-> PageSize])
    /\ \E ws \in Pages(ScanRecords(cutoff), Min(MaxPageLen, srvLeft)) :
          /\ workouts' = ws
          /\ srvLeft' = srvLeft - Len(ws)
          /\ IF ws = <<>>
             THEN /\ pc' = AfterEmpty(page).pc
                  /\ page' = AfterEmpty(page).page
                  /\ idx' = idx
             ELSE /\ pc' = "scan"
                  /\ page' = page
                  /\ idx' = 1
    /\ UNCHANGED <<env, days, now, all_workouts, result, error, adp, scanned, aux>>

\* One iteration of `for w in workouts`.
ScanRecord ==
    /\ pc = "scan"
    /\ idx \in 1..Len(workouts)
    /\ LET w == workouts[idx]
           c == Classify(w, cutoff)
           next == IF c = "stop" THEN AfterBreak(page)
                   ELSE IF idx < Len(workouts) THEN [pc |-> "scan", page |-> page]
                   ELSE AfterPage(page)
       IN /\ all_workouts' = IF c = "keep" THEN Append(all_workouts, w) ELSE all_workouts
          /\ idx' = IF c = "stop" THEN idx ELSE idx + 1
          /\ pc' = next.pc
          /\ page' = next.page
    /\ scanned' = scanned + 1
    /\ UNCHANGED <<env, days, now, workouts, requests, srvLeft, result, error, adp, aux>>

\* Lines 461-503: the no-workouts message or the summary.
Summarise ==
    /\ pc = "summarise"
    /\ result' = Render(all_workouts, days)
    /\ pc' = "returned"
    /\ UNCHANGED <<env, days, now, page, workouts, idx, all_workouts, requests,
                   srvLeft, error, adp, scanned, aux>>

Next == FetchNoKey \/ FetchFails \/ FetchPage \/ ScanRecord \/ Summarise

Spec == Init /\ [][Next]_vars

(* ------------------- a server that ignores pageSize -------------------- *)

\* The page of n records r.
Uniform(r, n) == [i \in 1..n |-> r]

\* api_get returns a page of pageSize records or of one more: nothing in
\* analyze_recent_workouts cuts `workouts` to the page size it asked for.
\* (srvLeft bounds the pages of FetchPage only.)
FetchLongPage ==
    /\ pc = "fetch"
    /\ ~HevyKeyMissing(env)
    /\ requests' = Append(requests, [page |-> page, pageSize |-> PageSize])
    /\ \E r \in {FreshWorkout(cutoff), GarbageWorkout}, n \in {PageSize, PageSize + 1} :
          workouts' = Uniform(r, n)
    /\ pc' = "scan"
    /\ idx' = 1
    /\ UNCHANGED <<env, days, now, page, all_workouts, srvLeft, result, error, adp,
                   scanned, aux>>

NextLongPages == FetchNoKey \/ FetchFails \/ FetchLongPage \/ ScanRecord \/ Summarise

SpecLongPages == Init /\ [][NextLongPages]_vars

(* ------------------------ the summary on its own ----------------------- *)

Request(p) == [page |-> p, pageSize |-> PageSize]

\* The state at line 461 after the server returned the kept records as page 1
\* and, when there were any, an empty page 2.
InitSummary ==
    /\ env = [c \in Credentials |-> "set"]
    /\ now = Clock
    /\ \E d \in Days :
          /\ days = d
          /\ all_workouts \in Pages(KeptRecords(Cutoff(Clock, d)), MaxKept)
    /\ pc = "summarise"
    /\ workouts = <<>>
    /\ page = IF all_workouts = <<>> THEN 1 ELSE 2
    /\ requests = IF all_workouts = <<>> THEN <<Request(1)>> ELSE <<Request(1), Request(2)>>
    /\ idx = IF all_workouts = <<>> THEN 0 ELSE Len(all_workouts) + 1
    /\ srvLeft = MaxRecords - Len(all_workouts)
    /\ result = <<>>
    /\ error = "none"
    /\ adp = Idle
    /\ scanned = Len(all_workouts)
    /\ api = ApiIdle
    /\ listener = NotListening
    /\ garmin = NoGarminRun

NextSummary == Summarise

SpecSummary == InitSummary /\ [][NextSummary]_vars

(* --------------------- the adapters and their credentials -------------- *)

AdapterOps == {"hevy_tool", "strava_tool", "strava_auth", "garmin_tool"}

\* The query of the callback request: the code it carries, "none" without one.
AuthCodes == {"none", "code_a", "code_b"}

\* One adapter operation starts in some environment.
InitCred ==
    /\ env \in [Credentials -> EnvValues]
    /\ adp \in {AdapterRun(op, "start", <<>>, "none", "none") : op \in AdapterOps}
    /\ days = DefaultDays
    /\ now = Clock
    /\ pc = "idle"
    /\ page = 1
    /\ workouts = <<>>
    /\ idx = 0
    /\ all_workouts = <<>>
    /\ requests = <<>>
    /\ srvLeft = MaxRecords
    /\ result = <<>>
    /\ error = "none"
    /\ scanned = 0
    /\ api = ApiIdle
    /\ listener = NotListening
    /\ garmin = NoGarminRun

main == <<env, days, now, pc, page, workouts, idx, all_workouts, requests,
          srvLeft, result, error, scanned>>

\* A pass-through Hevy tool (get_workouts, ...): api_get -> get_client raises
\* without the key, else the request is sent and answered or refused.
HevyToolCall ==
    /\ adp.op = "hevy_tool"
    /\ adp.pc = "start"
    /\ IF HevyKeyMissing(env)
       THEN adp' = [adp EXCEPT !.pc = "failed", !.err = "ValueError"]
       ELSE \E outcome \in {"done", "failed"} :
               adp' = [adp EXCEPT
                         !.calls = Append(@, Call("hevy_api", {}, "none")),
                         !.pc = outcome,
                         !.err = IF outcome = "failed" THEN "HTTPStatusError" ELSE "none"]
    /\ UNCHANGED <<main, aux>>

\* A Strava tool: _strava_client() hands os.getenv("STRAVA_ACCESS_TOKEN") to
\* stravalib.Client unchecked, and the client method sends the request; without
\* a token the API refuses it.
StravaToolCall ==
    /\ adp.op = "strava_tool"
    /\ adp.pc = "start"
    /\ LET missing == Missing(env, {"STRAVA_ACCESS_TOKEN"})
       IN \E outcome \in IF missing = {} THEN {"done", "failed"} ELSE {"failed"} :
             adp' = [adp EXCEPT
                       !.calls = Append(@, Call("strava_api", missing, "none")),
                       !.pc = outcome,
                       !.err = IF outcome = "failed" THEN "StravaApiError" ELSE "none"]
    /\ UNCHANGED <<main, aux>>

\* strava_auth: webbrowser.open(url) with the client id read from the
\* environment (default ""), then HTTPServer(("localhost", 8080), ...) binds.
AuthOpenBrowser ==
    /\ adp.op = "strava_auth"
    /\ adp.pc = "start"
    /\ adp' = [adp EXCEPT
                 !.calls = Append(@, Call("strava_authorize",
                                          Missing(env, {"STRAVA_CLIENT_ID"}), "none")),
                 !.pc = "listening"]
    /\ listener' = [listener EXCEPT !.listening = TRUE]
    /\ UNCHANGED <<main, api, garmin>>

\* The methods of the requests that reach the listener.
Methods == {"GET", "POST"}

\* The response to a request: do_GET answers 200 with the fixed body;
\* BaseHTTPRequestHandler answers 501 to a method without do_ handler.
Reply(method) ==
    IF method = "GET" THEN [status |-> 200, body |-> "OK - tu peux fermer cette fenetre"]
    ELSE [status |-> 501, body |-> "Unsupported method"]

\* Mutation of AfterRequest: serve_forever() instead of handle_request().
AfterRequestServeOn == "listening"

\* server.handle_request() returns after one request and the script goes on
\* to the token exchange.
AfterRequest == "exchange"

\* strava_auth: server.handle_request() serves one request; do_GET stores the
\* code of the query (None without one) and answers 200 with the fixed body.
AuthHandleRequest ==
    /\ adp.op = "strava_auth"
    /\ adp.pc = "listening"
    /\ \E method \in Methods, code \in AuthCodes :
          /\ adp' = [adp EXCEPT !.code = IF method = "GET" THEN code ELSE @,
                                !.pc = AfterRequest]
          /\ listener' = [listening |-> AfterRequest = "listening",
                          handled |-> Append(listener.handled,
                                             [method |-> method, code |-> code]),
                          replies |-> Append(listener.replies, Reply(method))]
    /\ UNCHANGED <<main, api, garmin>>

\* strava_auth: requests.post(token URL) with client id, secret and auth_code,
\* then tokens["access_token"], a KeyError on an error answer.
AuthExchange ==
    /\ adp.op = "strava_auth"
    /\ adp.pc = "exchange"
    /\ LET missing == Missing(env, {"STRAVA_CLIENT_ID", "STRAVA_CLIENT_SECRET"})
       IN \E outcome \in IF missing = {} /\ adp.code # "none"
                         THEN {"done", "failed"} ELSE {"failed"} :
             adp' = [adp EXCEPT
                       !.calls = Append(@, Call("strava_oauth_token", missing, adp.code)),
                       !.pc = outcome,
                       !.err = IF outcome = "failed" THEN "KeyError" ELSE "none"]
    /\ UNCHANGED <<main, aux>>

\* get_garmin_stats: Garmin(os.getenv("GARMIN_EMAIL"), os.getenv("GARMIN_PASSWORD"))
\* and api.login(), unchecked; the login request is refused without them.
GarminLogin ==
    /\ adp.op = "garmin_tool"
    /\ adp.pc = "start"
    /\ LET missing == Missing(env, {"GARMIN_EMAIL", "GARMIN_PASSWORD"})
       IN \E outcome \in IF missing = {} THEN {"logged_in", "failed"} ELSE {"failed"} :
             adp' = [adp EXCEPT
                       !.calls = Append(@, Call("garmin_sso", missing, "none")),
                       !.pc = outcome,
                       !.err = IF outcome = "failed" THEN "GarminLoginError" ELSE "none"]
    /\ UNCHANGED <<main, aux>>

NextCred ==
    \/ HevyToolCall
    \/ StravaToolCall
    \/ AuthOpenBrowser
    \/ AuthHandleRequest
    \/ AuthExchange
    \/ GarminLogin

SpecCred == InitCred /\ [][NextCred]_vars

(* ------------------------- get_garmin_stats ---------------------------- *)

\* The `days` member of arguments: absent, or a count of days.
DaysArgs == {None} \cup {Some(n) : n \in 0..MaxDaysArg}

\* days = arguments.get("days", 7)
DaysOf(arg) == GetOr(arg, GarminDefaultDays)

\* date.today(), as a day number.
Today == Clock \div HoursPerDay

\* The keys of a day's entry, in the order of their try blocks.
GarminMetrics ==
    <<"stats", "hrv", "body_battery", "sleep", "stress", "training_readiness",
      "training_load">>

MetricNames == {GarminMetrics[k] : k \in 1..Len(GarminMetrics)}

\* try: day[m] = api.get_...(d)  except Exception: pass
TryMetric(day, m, ok) == IF ok THEN [day EXCEPT !.metrics = @ \cup {m}] ELSE day

\* The try blocks from the k-th on; ok is the set of calls that do not raise.
RECURSIVE TryMetrics(_, _, _)
TryMetrics(day, k, ok) ==
    IF k > Len(GarminMetrics) THEN day
    ELSE TryMetrics(TryMetric(day, GarminMetrics[k], GarminMetrics[k] \in ok), k + 1, ok)

\* d = (date.today() - timedelta(days=i)).isoformat(); day = {"date": d} and
\* the seven try blocks. metrics is the set of keys besides "date".
DayEntry(i, ok) == TryMetrics([date |-> Today - i, metrics |-> {}], 1, ok)

\* get_garmin_stats is called with all credentials but Garmin's set.
InitGarmin ==
    /\ env \in {e \in [Credentials -> EnvValues] :
                  \A c \in Credentials \ {"GARMIN_EMAIL", "GARMIN_PASSWORD"} :
                     e[c] = "set"}
    /\ adp = AdapterRun("garmin_tool", "start", <<>>, "none", "none")
    /\ days = DefaultDays
    /\ now = Clock
    /\ pc = "idle"
    /\ page = 1
    /\ workouts = <<>>
    /\ idx = 0
    /\ all_workouts = <<>>
    /\ requests = <<>>
    /\ srvLeft = MaxRecords
    /\ result = <<>>
    /\ error = "none"
    /\ scanned = 0
    /\ api = ApiIdle
    /\ listener = NotListening
    /\ garmin = NoGarminRun

\* Lines 51-52: days = arguments.get("days", 7); stats = [].
GarminReadDays ==
    /\ adp.op = "garmin_tool"
    /\ adp.pc = "logged_in"
    /\ \E arg \in DaysArgs : garmin' = [NoGarminRun EXCEPT !.days = DaysOf(arg)]
    /\ adp' = [adp EXCEPT !.pc = "loop"]
    /\ UNCHANGED <<main, api, listener>>

\* One iteration of `for i in range(days)`, lines 55-94: the day's entry is
\* built and appended, and the `return` of line 94, which is indented into the
\* loop body, ends the call.
GarminDay ==
    /\ adp.op = "garmin_tool"
    /\ adp.pc = "loop"
    /\ garmin.i < garmin.days
    /\ \E ok \in SUBSET MetricNames :
          garmin' = [garmin EXCEPT !.stats = Append(@, DayEntry(garmin.i, ok)),
                                   !.answered = Append(@, ok),
                                   !.returned = "stats"]
    /\ adp' = [adp EXCEPT !.pc = "done"]
    /\ UNCHANGED <<main, api, listener>>

\* range(days) is empty: the loop body never runs, the branch ends without a
\* return statement and call_tool returns None.
GarminLoopEnds ==
    /\ adp.op = "garmin_tool"
    /\ adp.pc = "loop"
    /\ garmin.i >= garmin.days
    /\ garmin' = [garmin EXCEPT !.returned = "None"]
    /\ adp' = [adp EXCEPT !.pc = "done"]
    /\ UNCHANGED <<main, api, listener>>

NextGarmin == GarminLogin \/ GarminReadDays \/ GarminDay \/ GarminLoopEnds

SpecGarmin == InitGarmin /\ [][NextGarmin]_vars

(* ------------------------- the Hevy API client ------------------------- *)

\* The tools explored, one per verb, and analyze_recent_workouts, which calls
\* api_get once per page.
ApiTools ==
    {[tool |-> "get_workouts", verb |-> "GET"],
     [tool |-> "create_workout", verb |-> "POST"],
     [tool |-> "update_workout", verb |-> "PUT"],
     [tool |-> "delete_routine_folder", verb |-> "DELETE"],
     [tool |-> "analyze_recent_workouts", verb |-> "GET"]}

\* The api_* calls one run of the tool can make.
MaxCalls(tool) == IF tool = "analyze_recent_workouts" THEN LastPage ELSE 1

\* The responses explored: a status, and a body that is empty, a JSON
\* document, the JSON document {"success": true}, or not JSON.
Statuses == {200, 204, 301, 404, 500}
Bodies == {"empty", "json", "success_json", "garbage"}

\* httpx: response.raise_for_status() returns for a 2xx status only.
IsSuccess(status) == status >= 200 /\ status < 300

\* response.json()
JsonOf(body) ==
    CASE body = "json"         -> [ok |-> TRUE, value |-> "data"]
      [] body = "success_json" -> [ok |-> TRUE, value |-> "success_true"]
      [] OTHER                 -> [ok |-> FALSE, value |-> "none"]

\* The outcome of a with-block: the exception it raises or the value it returns.
Raises(err) == [err |-> err, ret |-> NoReturn]
Returns(path, value) == [err |-> "none", ret |-> [path |-> path, value |-> value]]

\* api_get, api_post, api_put: raise_for_status(), then return response.json().
ParsedBody(status, body) ==
    IF ~IsSuccess(status) THEN Raises("HTTPStatusError")
    ELSE IF ~JsonOf(body).ok THEN Raises("JSONDecodeError")
    ELSE Returns("json", JsonOf(body).value)

\* Mutation of DeleteResult: the empty body is looked at before the status.
DeleteResultMarkerFirst(status, body) ==
    IF body = "empty" THEN Returns("marker", "success_true")
    ELSE ParsedBody(status, body)

\* api_delete: raise_for_status(); `if response.content: return
\* response.json()`; `return {"success": True}`.
DeleteResult(status, body) ==
    IF ~IsSuccess(status) THEN Raises("HTTPStatusError")
    ELSE IF body # "empty" THEN ParsedBody(status, body)
    ELSE Returns("marker", "success_true")

\* Mutation of ClientsAfterExit: the client is closed on the normal path only.
ClientsLeakOnError(clients, pending) ==
    IF pending = "none" THEN clients - 1 ELSE clients

\* `with get_client() as client:` closes the client when the block is left,
\* by return or by exception.
ClientsAfterExit(clients, pending) == clients - 1

\* A Hevy tool is called in some environment.
InitApi ==
    /\ env \in {e \in [Credentials -> EnvValues] :
                  \A c \in Credentials \ {"HEVY_API_KEY"} : e[c] = "set"}
    /\ api \in {ApiRun(t.tool, t.verb, "call") : t \in ApiTools}
    /\ days = DefaultDays
    /\ now = Clock
    /\ pc = "idle"
    /\ page = 1
    /\ workouts = <<>>
    /\ idx = 0
    /\ all_workouts = <<>>
    /\ requests = <<>>
    /\ srvLeft = MaxRecords
    /\ result = <<>>
    /\ error = "none"
    /\ scanned = 0
    /\ adp = Idle
    /\ listener = NotListening
    /\ garmin = NoGarminRun

\* api_*: get_client() raises without the key, else creates the client the
\* with-block enters.
ApiGetClient ==
    /\ api.pc = "call"
    /\ IF HevyKeyMissing(env)
       THEN api' = [api EXCEPT !.calls = @ + 1, !.pc = "raised", !.err = "ValueError"]
       ELSE api' = [api EXCEPT !.calls = @ + 1, !.clients = @ + 1, !.opened = @ + 1,
                               !.status = 0, !.body = "none", !.pending = "none",
                               !.ret = NoReturn, !.pc = "send"]
    /\ UNCHANGED <<main, adp, listener, garmin>>

\* client.get / post / put / delete: a response arrives or the transport fails.
ApiSend ==
    /\ api.pc = "send"
    /\ \/ api' = [api EXCEPT !.pending = "TransportError", !.pc = "exit"]
       \/ \E status \in Statuses, body \in Bodies :
             api' = [api EXCEPT !.status = status, !.body = body, !.pc = "respond"]
    /\ UNCHANGED <<main, adp, listener, garmin>>

\* The rest of the with-block: raise_for_status() and the return statement.
ApiRespond ==
    /\ api.pc = "respond"
    /\ LET r == IF api.verb = "DELETE" THEN DeleteResult(api.status, api.body)
                ELSE ParsedBody(api.status, api.body)
       IN api' = [api EXCEPT !.pending = r.err, !.ret = r.ret, !.pc = "exit"]
    /\ UNCHANGED <<main, adp, listener, garmin>>

\* The with-block is left: the client is closed; an exception ends the tool,
\* a value goes to the tool, which returns or (analyze_recent_workouts, below
\* its 5 pages) calls api_get again.
ApiExit ==
    /\ api.pc = "exit"
    /\ \E at \in IF api.pending # "none" THEN {"raised"}
                 ELSE IF api.calls < MaxCalls(api.tool) THEN {"call", "returned"}
                 ELSE {"returned"} :
          api' = [api EXCEPT !.clients = ClientsAfterExit(api.clients, api.pending),
                             !.err = api.pending, !.pc = at]
    /\ UNCHANGED <<main, adp, listener, garmin>>

NextApi == ApiGetClient \/ ApiSend \/ ApiRespond \/ ApiExit

SpecApi == InitApi /\ [][NextApi]_vars

(* ------------------- properties of analyze_recent_workouts ------------- *)

\* The instant (UTC hours) a start_time with a UTC designator denotes.
HasOffset(w) == w.start_time.form \in {"z", "offset"}
UtcHours(w) == w.start_time.local - w.start_time.off

\* The record's timestamp is strictly older than, or at or after, the cutoff.
OlderThanCutoff(w) == HasOffset(w) /\ UtcHours(w) < cutoff
AtOrAfterCutoff(w) == HasOffset(w) /\ UtcHours(w) >= cutoff

\* The record's start_time is absent, cannot be parsed, or cannot be compared
\* with the cutoff.
Unusable(w) == ~HasOffset(w)

\* The record the scan is about to examine.
Scanning == pc = "scan" /\ idx \in 1..Len(workouts)

LoopOver == pc \in {"summarise", "returned", "raised"}

\* C1: when the scan examines a record strictly older than the cutoff, the
\* loop is left at once (nothing is kept, nothing is fetched), and once the
\* loop is left no record is kept and no page is fetched any more, whatever
\* the records behind the old one are.
C1_StaleRecordStopsScan ==
    [][ /\ (Scanning /\ OlderThanCutoff(workouts[idx]))
            => /\ pc' = "summarise"
               /\ all_workouts' = all_workouts
               /\ requests' = requests
        /\ LoopOver
            => /\ LoopOver'
               /\ all_workouts' = all_workouts
               /\ requests' = requests ]_vars

\* C1 witness: the call has returned after meeting an old record on page 1
\* that is followed, on the same page, by a record within the window; that
\* record was not kept and page 2 was never requested although the server
\* had more.
C1_Witness ==
    /\ pc = "returned"
    /\ Len(requests) = 1
    /\ idx < Len(workouts)
    /\ OlderThanCutoff(workouts[idx])
    /\ AtOrAfterCutoff(workouts[idx + 1])
    /\ all_workouts = <<>>
    /\ srvLeft > 0

\* C2: when the scan examines a record whose start_time is unusable, the
\* record is not kept and the scan goes on: to the next record of the page,
\* or, after the last record, to the fetch of the next page (to the summary
\* after page 5); and no kept record ever has an unusable start_time.
C2_MalformedRecordSkipped ==
    /\ [][ (Scanning /\ Unusable(workouts[idx]))
            => /\ all_workouts' = all_workouts
               /\ workouts' = workouts
               /\ idx < Len(workouts) => (pc' = "scan" /\ idx' = idx + 1 /\ page' = page)
               /\ (idx = Len(workouts) /\ page < 5) => (pc' = "fetch" /\ page' = page + 1)
               /\ (idx = Len(workouts) /\ page = 5) => pc' = "summarise" ]_vars
    /\ [](\A i \in 1..Len(all_workouts) : ~Unusable(all_workouts[i]))

\* C2 witness: on a page after the first, whose records before it were kept,
\* an unusable record came first and the scan went on to the second record.
C2_Witness ==
    /\ Len(requests) >= 2
    /\ Len(workouts) >= 1
    /\ all_workouts # <<>>
    /\ pc = "scan"
    /\ idx = 2
    /\ Unusable(workouts[1])

\* C3: a scanned record is kept exactly when its timestamp is at or after the
\* cutoff (a timestamp equal to the cutoff included), and every kept record
\* has a timestamp at or after the cutoff.
C3_KeptIffAtOrAfterCutoff ==
    /\ [][ Scanning
            => /\ AtOrAfterCutoff(workouts[idx])
                    => all_workouts' = Append(all_workouts, workouts[idx])
               /\ ~AtOrAfterCutoff(workouts[idx])
                    => all_workouts' = all_workouts ]_vars
    /\ [](\A i \in 1..Len(all_workouts) : AtOrAfterCutoff(all_workouts[i]))

\* C3 witness: a record whose timestamp equals the cutoff has been kept.
C3_Witness ==
    \E i \in 1..Len(all_workouts) :
        /\ HasOffset(all_workouts[i])
        /\ UtcHours(all_workouts[i]) = cutoff
        /\ all_workouts[i].start_time.local # cutoff

\* C4: one call issues at most 5 requests, for pages 1, 2, ... in this order
\* with page size 10.
C4_AtMostFivePages ==
    /\ Len(requests) <= 5
    /\ \A i \in 1..Len(requests) : requests[i] = [page |-> i, pageSize |-> 10]

\* C4 witness: the call returned after 5 requests, every record the server
\* returned was within the window and kept, and the server had more.
C4_Witness ==
    /\ pc = "returned"
    /\ Len(requests) = 5
    /\ Len(all_workouts) = MaxRecords - srvLeft
    /\ Len(all_workouts) >= 5
    /\ srvLeft > 0
    /\ result # <<>>

\* C5: a request is always for the page after the last one requested,
\* starting at 1; a page after the first is requested only if the page before
\* it was not empty and held no record older than the cutoff; an empty page
\* ends the fetching with the kept records unchanged, and the call then
\* returns the summary of exactly these records.
C5_PagesInOrderWhileJustified ==
    /\ [][ /\ requests' # requests
                => /\ pc = "fetch"
                   /\ Len(requests') = Len(requests) + 1
                   /\ requests'[Len(requests')].page = Len(requests) + 1
                   /\ Len(requests) >= 1
                        => /\ workouts # <<>>
                           /\ \A i \in 1..Len(workouts) : ~OlderThanCutoff(workouts[i])
           /\ (pc = "fetch" /\ error' = "none" /\ workouts' = <<>>)
                => /\ pc' = "summarise"
                   /\ all_workouts' = all_workouts
           /\ pc = "summarise"
                => /\ pc' = "returned"
                   /\ all_workouts' = all_workouts
                   /\ result' # <<>>
                   /\ all_workouts # <<>>
                        => result'[3] = Line("total_workouts", Len(all_workouts), "", 0) ]_vars

\* C5 witness: page 1 held kept records, page 2 came back empty, and the
\* call returned the summary of the records of page 1.
C5_Witness ==
    /\ pc = "returned"
    /\ Len(requests) = 2
    /\ workouts = <<>>
    /\ Len(all_workouts) = 2
    /\ result[3] = Line("total_workouts", 2, "", 0)
    /\ srvLeft > 0

\* C6: a call that returns with no kept record returns the no-workouts line
\* for its day count and nothing else; a call that returns with kept records
\* returns the header first and never the no-workouts line.
C6_NoActivityMessage ==
    pc = "returned"
        => IF all_workouts = <<>>
           THEN result = <<[tag |-> "no_workouts", n |-> days, s |-> "", m |-> 0]>>
           ELSE /\ result[1] = [tag |-> "header", n |-> days, s |-> "", m |-> 0]
                /\ \A i \in 1..Len(result) : result[i].tag # "no_workouts"

\* C6 witness: two pages were fetched, only unusable records were scanned
\* (none kept), and the call returned the single no-workouts line.
C6_Witness ==
    /\ pc = "returned"
    /\ Len(requests) >= 2
    /\ all_workouts = <<>>
    /\ Len(result) = 1
    /\ result[1].tag = "no_workouts"
    /\ result[1].n = days

\* C9: an exception of a fetch ends the call with that exception: no result
\* is ever returned, no further request is made, and the failed request is
\* the last one.
C9_FetchFailureAborts ==
    /\ [][ /\ (error' # "none" /\ error = "none")
                => (pc' = "raised" /\ result' = <<>> /\ Len(requests') <= Len(requests) + 1)
           /\ error # "none"
                => (pc' = "raised" /\ requests' = requests /\ result' = <<>>
                    /\ error' = error) ]_vars
    /\ [](error # "none" => (pc = "raised" /\ result = <<>>))

\* C9 witness: the third fetch failed with an HTTP error after records of
\* earlier pages had been kept; the call raised and returned nothing.
C9_Witness ==
    /\ pc = "raised"
    /\ error = "HTTPStatusError"
    /\ Len(requests) = 3
    /\ all_workouts # <<>>
    /\ result = <<>>

(* ------------------------ properties of the summary -------------------- *)

\* The positions <<workout, exercise, set>> of the sets, and <<workout,
\* exercise>> of the exercise entries, of the kept records.
EntryPositions(ws) ==
    UNION {{<<i, j>> : j \in 1..Len(ws[i].exercises)} : i \in 1..Len(ws)}
SetPositions(ws) ==
    UNION {{<<p[1], p[2], k>> : k \in 1..Len(ws[p[1]].exercises[p[2]].sets)} :
             p \in EntryPositions(ws)}

SetAt(ws, p) == ws[p[1]].exercises[p[2]].sets[p[3]]

\* weight_kg x reps of the sets that have both.
RECURSIVE SumWeightTimesReps(_, _)
SumWeightTimesReps(ws, S) ==
    IF S = {} THEN 0
    ELSE LET p == CHOOSE q \in S : TRUE
         IN SetAt(ws, p).weight_kg.v * SetAt(ws, p).reps.v
            + SumWeightTimesReps(ws, S \ {p})

CompleteSets(ws) ==
    {p \in SetPositions(ws) : SetAt(ws, p).weight_kg.some /\ SetAt(ws, p).reps.some}

\* C7: the summary's total sets is the number of sets of all exercises of all
\* kept records, sets without weight_kg or reps included, and its total
\* volume is the sum of weight_kg x reps over the sets that have both (the
\* others add 0).
C7_VolumeAndSets ==
    (pc = "returned" /\ all_workouts # <<>>)
        => /\ result[4] = [tag |-> "total_sets", s |-> "", m |-> 0,
                           n |-> Cardinality(SetPositions(all_workouts))]
           /\ result[5] = [tag |-> "total_volume", s |-> "", m |-> 0,
                           n |-> SumWeightTimesReps(all_workouts, CompleteSets(all_workouts))]

\* C7 witness: a summary was returned for kept records holding a set without
\* weight_kg and a set without reps, next to sets that have both.
C7_Witness ==
    /\ pc = "returned"
    /\ Len(all_workouts) >= 2
    /\ \E p \in SetPositions(all_workouts) :
          ~SetAt(all_workouts, p).weight_kg.some /\ SetAt(all_workouts, p).reps.some
    /\ \E p \in SetPositions(all_workouts) :
          SetAt(all_workouts, p).weight_kg.some /\ ~SetAt(all_workouts, p).reps.some
    /\ result[5].n > 0
    /\ result[4].n > Cardinality(CompleteSets(all_workouts))

\* The title an exercise entry is counted under, the entries counted under a
\* title, and the first entry (in scan order) counted under it.
TitleAt(ws, p) ==
    IF ws[p[1]].exercises[p[2]].title.some
    THEN ws[p[1]].exercises[p[2]].title.v ELSE "Unknown"
EntriesOf(ws, t) == {p \in EntryPositions(ws) : TitleAt(ws, p) = t}
Titles(ws) == {TitleAt(ws, p) : p \in EntryPositions(ws)}
Before(p, q) == p[1] < q[1] \/ (p[1] = q[1] /\ p[2] < q[2])
FirstSeen(ws, t) ==
    CHOOSE p \in EntriesOf(ws, t) : \A q \in EntriesOf(ws, t) : p = q \/ Before(p, q)

\* t ranks ahead of u: more entries, or as many and seen first.
RanksAhead(ws, t, u) ==
    \/ Cardinality(EntriesOf(ws, t)) > Cardinality(EntriesOf(ws, u))
    \/ /\ Cardinality(EntriesOf(ws, t)) = Cardinality(EntriesOf(ws, u))
       /\ Before(FirstSeen(ws, t), FirstSeen(ws, u))

\* The "exercise" lines of the result, in order.
ExerciseLines == SelectSeq(result, LAMBDA l : l.tag = "exercise")

\* C8: the frequency listing holds min(10, number of titles) lines; each
\* line gives a title with the number of exercise entries under it; each line
\* ranks ahead of the next one (higher count, or equal count and seen first),
\* and every listed title ranks ahead of every title left out.
C8_FrequencyListing ==
    pc = "returned"
        => LET ws == all_workouts
               L == ExerciseLines
               n == Cardinality(Titles(ws))
           IN /\ Len(L) = IF n < 10 THEN n ELSE 10
              /\ \A i \in 1..Len(L) :
                    /\ L[i].s \in Titles(ws)
                    /\ L[i].n = Cardinality(EntriesOf(ws, L[i].s))
              /\ \A i \in 1..(Len(L) - 1) : RanksAhead(ws, L[i].s, L[i + 1].s)
              /\ \A t \in Titles(ws) :
                    (\A i \in 1..Len(L) : L[i].s # t)
                        => \A i \in 1..Len(L) : RanksAhead(ws, L[i].s, t)

\* C8 witness: more than 10 titles were seen, 10 are listed, a title with two
\* entries in one workout leads, titles with equal counts follow it, and an
\* exercise with several sets counts once.
C8_Witness ==
    /\ pc = "returned"
    /\ Cardinality(Titles(all_workouts)) > 10
    /\ Len(ExerciseLines) = 10
    /\ ExerciseLines[1].n = 2
    /\ ExerciseLines[2].n = ExerciseLines[3].n
    /\ \E p \in EntryPositions(all_workouts) :
          /\ Len(all_workouts[p[1]].exercises[p[2]].sets) > 1
          /\ Cardinality(EntriesOf(all_workouts, TitleAt(all_workouts, p))) = 1

(* ------------------------ properties of the adapters ------------------- *)

\* The credentials each adapter operation requires.
Required(op) ==
    CASE op = "hevy_tool"   -> {"HEVY_API_KEY"}
      [] op = "strava_tool" -> {"STRAVA_ACCESS_TOKEN"}
      [] op = "strava_auth" -> {"STRAVA_CLIENT_ID", "STRAVA_CLIENT_SECRET"}
      [] op = "garmin_tool" -> {"GARMIN_EMAIL", "GARMIN_PASSWORD"}
      [] OTHER              -> {}

\* C10: no adapter ever issues an outbound request that lacks a credential it
\* needs, and an operation whose required credential is not set has made no
\* request at all once it has moved, and ends with a configuration error.
C10_FailFastWithoutCredential ==
    /\ \A i \in 1..Len(adp.calls) : adp.calls[i].missing = {}
    /\ (adp.op \in AdapterOps /\ Missing(env, Required(adp.op)) # {} /\ adp.pc # "start")
          => (adp.calls = <<>> /\ adp.pc = "failed" /\ adp.err = "ValueError")

\* The Hevy adapter alone, where get_client checks the key, does fail fast.
HevyFailsFast ==
    (adp.op = "hevy_tool" /\ Missing(env, Required(adp.op)) # {} /\ adp.pc # "start")
        => (adp.calls = <<>> /\ adp.pc = "failed" /\ adp.err = "ValueError")

(* ------------------------ properties of the API client ----------------- *)

\* The with-block of the current api_* call is over and had a response.
Answered == api.status # 0 /\ api.pc \in {"exit", "returned", "raised"}

\* C11: once api_delete has handled a response, it returns the success marker
\* of its last line exactly when the status was 2xx and the body empty; and
\* for every verb a status outside 2xx ends the call with the HTTP status
\* error and no return value, whatever the body.
C11_DeleteMarker ==
    Answered
        => /\ api.verb = "DELETE"
                => (api.ret.path = "marker"
                        <=> (api.status \in 200..299 /\ api.body = "empty"))
           /\ api.verb # "DELETE" => api.ret.path # "marker"
           /\ api.status \notin 200..299
                => (api.pending = "HTTPStatusError" /\ api.ret = [path |-> "none", value |-> "none"])

\* C11 witness: delete_routine_folder returned the marker for a 204 with an
\* empty body.
C11_Witness ==
    /\ api.tool = "delete_routine_folder"
    /\ api.pc = "returned"
    /\ api.status = 204
    /\ api.body = "empty"
    /\ api.ret = [path |-> "marker", value |-> "success_true"]

\* C13: at most one httpx client is open at any time; none is open before an
\* api_* call, nor once the tool has returned or raised; and every client
\* created is closed when its call is over.
C13_ClientsClosed ==
    /\ api.clients \in {0, 1}
    /\ api.pc \in {"idle", "call", "returned", "raised"} => api.clients = 0
    /\ api.pc \in {"send", "respond", "exit"} => api.clients = 1
    /\ api.opened <= api.calls
    /\ api.calls <= 5

\* C13 witness: analyze_recent_workouts raised on its third api_get, whose
\* 2xx body did not parse, after opening three clients; none is open.
C13_Witness ==
    /\ api.tool = "analyze_recent_workouts"
    /\ api.pc = "raised"
    /\ api.err = "JSONDecodeError"
    /\ api.opened = 3
    /\ api.clients = 0

(* ------------------------ properties of strava_auth -------------------- *)

\* The token-exchange POSTs made so far.
TokenCalls == SelectSeq(adp.calls, LAMBDA c : c.to = "strava_oauth_token")

\* C12: the listener handles at most one request and listens no more once it
\* has handled one; a GET request is answered 200 with the fixed body and its
\* code is the one captured; the token POST is made at most once, only after
\* the request was handled, with the captured code; and a run that is over
\* has made it exactly once.
C12_OneRequestThenOneExchange ==
    adp.op = "strava_auth"
        => /\ Len(listener.handled) <= 1
           /\ Len(listener.replies) = Len(listener.handled)
           /\ listener.handled # <<>> => ~listener.listening
           /\ adp.pc = "listening" <=> listener.listening
           /\ \A i \in 1..Len(listener.handled) :
                 listener.handled[i].method = "GET"
                    => /\ listener.replies[i] =
                            [status |-> 200, body |-> "OK - tu peux fermer cette fenetre"]
                       /\ adp.code = listener.handled[i].code
           /\ Len(TokenCalls) <= 1
           /\ \A i \in 1..Len(TokenCalls) :
                 /\ Len(listener.handled) = 1
                 /\ TokenCalls[i].code = adp.code
           /\ adp.pc \in {"done", "failed"} => Len(TokenCalls) = 1

\* C12 witness: the run is over; the one request handled was a GET carrying
\* code_a, and the one token POST carried code_a.
C12_Witness ==
    /\ adp.op = "strava_auth"
    /\ adp.pc = "done"
    /\ listener.handled = <<[method |-> "GET", code |-> "code_a"]>>
    /\ ~listener.listening
    /\ Len(TokenCalls) = 1
    /\ TokenCalls[1].code = "code_a"

(* ------------------------ the bound on the scan ------------------------ *)

\* C14: one call examines at most 50 records and keeps at most 50, whatever
\* the pages the server returns.
C14_AtMostFiftyRecords ==
    /\ scanned <= 50
    /\ Len(all_workouts) <= 50

(* --------------------------- the Garmin days --------------------------- *)

GarminReturned == adp.op = "garmin_tool" /\ adp.pc = "done"

\* C15: called with days = N >= 1, get_garmin_stats returns one entry per day
\* for today back to today - (N - 1), and each entry holds exactly the metrics
\* whose call did not raise.
C15_OneEntryPerDay ==
    (GarminReturned /\ garmin.days >= 1) =>
        /\ garmin.returned = "stats"
        /\ Len(garmin.stats) = garmin.days
        /\ \A k \in 1..garmin.days :
              /\ garmin.stats[k].date = Today - (k - 1)
              /\ garmin.stats[k].metrics = garmin.answered[k]

\* What the call does return for N >= 1: today's entry alone, with the metrics
\* whose call did not raise.
GarminReturnsTodayOnly ==
    (GarminReturned /\ garmin.days >= 1) =>
        /\ garmin.returned = "stats"
        /\ Len(garmin.stats) = 1
        /\ garmin.stats[1].date = Today
        /\ garmin.stats[1].metrics = garmin.answered[1]

====
